---- MODULE Spec2Model ----
(***************************************************************************)
(* State-machine model of the token-erc-20 chaincode                       *)
(* (token-erc-20/chaincode-go/chaincode/tokenerc20.go).                    *)
(*                                                                         *)
(* Strings (account ids, store keys) are sequences of tokens; a token is   *)
(* either the NUL character or a non-empty run of characters without NUL.  *)
(* Stored values are byte strings: sequences of single characters holding  *)
(* the decimal text written by strconv.Itoa.                               *)
(***************************************************************************)
EXTENDS Integers, Sequences, FiniteSets, TLC

VARIABLES
    state,  \* the world state: store key -> stored bytes
    tx,     \* the invocation in flight: its arguments and its response
    tx2     \* a second invocation endorsed against the same snapshot

vars == <<state, tx, tx2>>

(* ------------------------------ bounds --------------------------------- *)

\* amounts passed to the contract are drawn from -1 .. MaxAmount
MaxAmount == 2
\* no transaction is explored whose writes exceed MaxValue ...
MaxValue == 2
\* ... or fall below -MaxDebt
MaxDebt == 1

Amounts == (-1) .. MaxAmount

(* --------------------------- program constants ------------------------- *)

NUL == "\\x00"

totalSupplyKey == <<"totalSupply">>

allowancePrefix == <<"allowance">>

OK == "OK"

(* ------------------------------ strconv -------------------------------- *)

DigitChars == <<"0", "1", "2", "3", "4", "5", "6", "7", "8", "9">>

IsDigit(c) == \E d \in 1..10 : DigitChars[d] = c

DigitVal(c) == (CHOOSE d \in 1..10 : DigitChars[d] = c) - 1

RECURSIVE NatToDigits(_)
NatToDigits(n) ==
    IF n < 10 THEN <<DigitChars[n + 1]>>
    ELSE NatToDigits(n \div 10) \o <<DigitChars[(n % 10) + 1]>>

RECURSIVE DigitsToNat(_)
DigitsToNat(s) ==
    IF Len(s) = 0 THEN 0
    ELSE 10 * DigitsToNat(SubSeq(s, 1, Len(s) - 1)) + DigitVal(s[Len(s)])

\* strconv.Itoa: decimal text, "-" in front of a negative number
Itoa(n) == IF n < 0 THEN <<"-">> \o NatToDigits(-n) ELSE NatToDigits(n)

\* strconv.Atoi: optional sign, then one or more digits; anything else
\* (the empty string of an absent value included) is (0, error)
Atoi(s) ==
    LET signed == Len(s) > 0 /\ s[1] \in {"-", "+"}
        body   == IF signed THEN Tail(s) ELSE s
    IN  IF Len(body) = 0 \/ \E i \in 1..Len(body) : ~IsDigit(body[i])
        THEN [val |-> 0, ok |-> FALSE]
        ELSE [val |-> IF s[1] = "-" THEN -DigitsToNat(body) ELSE DigitsToNat(body),
              ok  |-> TRUE]

(* --------------------------- the ledger stub --------------------------- *)

\* ctx.GetStub().GetState(key): the committed value, nil when absent
GetState(st, key) ==
    IF key \in DOMAIN st THEN [found |-> TRUE, bytes |-> st[key]]
    ELSE [found |-> FALSE, bytes |-> <<>>]

\* ctx.GetStub().PutState(key, value) applied to a world state
PutState(st, key, value) ==
    [k \in (DOMAIN st) \cup {key} |-> IF k = key THEN value ELSE st[k]]

\* ctx.GetStub().DelState(key) applied to a world state
DelState(st, key) == [k \in (DOMAIN st) \ {key} |-> st[k]]

\* ctx.GetStub().CreateCompositeKey(objectType, attributes): NUL, the object
\* type, NUL, then every attribute followed by NUL; an attribute holding NUL
\* is refused
RECURSIVE JoinAttributes(_)
JoinAttributes(attributes) ==
    IF Len(attributes) = 0 THEN <<>>
    ELSE Head(attributes) \o <<NUL>> \o JoinAttributes(Tail(attributes))

HasNUL(s) == \E i \in 1..Len(s) : s[i] = NUL

\* CreateCompositeKey without its refusal of attributes holding NUL
CreateCompositeKey_Unchecked(objectType, attributes) ==
    [ok |-> TRUE,
     key |-> <<NUL>> \o objectType \o <<NUL>> \o JoinAttributes(attributes)]

CreateCompositeKey(objectType, attributes) ==
    IF HasNUL(objectType) \/ \E i \in 1..Len(attributes) : HasNUL(attributes[i])
    THEN [ok |-> FALSE, key |-> <<>>]
    ELSE [ok |-> TRUE,
          key |-> <<NUL>> \o objectType \o <<NUL>> \o JoinAttributes(attributes)]

\* the event struct
event(from, to, value) == [From |-> from, To |-> to, Value |-> value]

(* ------------------------- callers and arguments ----------------------- *)

\* ctx.GetClientIdentity().GetID() of the callers explored
ClientA == <<"A">>
ClientB == <<"B">>
Clients == {ClientA, ClientB}

\* ctx.GetClientIdentity().GetMSPID()
GetMSPID(client) == IF client = ClientA THEN "Org1MSP" ELSE "Org2MSP"

\* string arguments: the client ids, an id no client holds, the key of the
\* total supply, and strings holding NUL (an allowance key; a client id, NUL
\* and a client id)
Receivers == Clients \cup {<<"C">>, totalSupplyKey}
Froms     == Clients \cup {CreateCompositeKey(allowancePrefix, <<ClientA, ClientB>>).key}
Spenders  == {ClientB, ClientB \o <<NUL>> \o ClientB}

(* ----------------------- results of an invocation ---------------------- *)

\* an invocation returns an error, or nil together with the writes it issued
\* (in order) and the events it set
Fail(kind) == [err |-> kind, writes |-> <<>>, events |-> <<>>]

Success(writes, events) == [err |-> OK, writes |-> writes, events |-> events]

(* ------------------------------ the contract --------------------------- *)

\* _transferCalc without its check of the sender's funds
_transferCalc_NoFundsCheck(st, from, receiver, amount) ==
    LET fromCurrentBalanceBytes == GetState(st, from)
        fromCurrentBalance      == Atoi(fromCurrentBalanceBytes.bytes).val
        toCurrentBalanceBytes   == GetState(st, receiver)
        toCurrentBalance        == IF ~toCurrentBalanceBytes.found THEN 0
                                   ELSE Atoi(toCurrentBalanceBytes.bytes).val
    IN  IF from = receiver THEN Fail("InvalidArgument")
        ELSE IF amount < 0 THEN Fail("InvalidArgument")
        ELSE IF ~fromCurrentBalanceBytes.found THEN Fail("AccountNotFound")
        ELSE Success(<< <<from, Itoa(fromCurrentBalance - amount)>>,
                        <<receiver, Itoa(toCurrentBalance + amount)>> >>, <<>>)

_transferCalc(st, from, receiver, amount) ==
    LET fromCurrentBalanceBytes == GetState(st, from)
        fromCurrentBalance      == Atoi(fromCurrentBalanceBytes.bytes).val
        toCurrentBalanceBytes   == GetState(st, receiver)
        toCurrentBalance        == IF ~toCurrentBalanceBytes.found THEN 0
                                   ELSE Atoi(toCurrentBalanceBytes.bytes).val
        fromUpdatedBalance      == fromCurrentBalance - amount
        toUpdatedBalance        == toCurrentBalance + amount
    IN  IF from = receiver THEN Fail("InvalidArgument")
        ELSE IF amount < 0 THEN Fail("InvalidArgument")
        ELSE IF ~fromCurrentBalanceBytes.found THEN Fail("AccountNotFound")
        ELSE IF fromCurrentBalance < amount THEN Fail("InsufficientFunds")
        ELSE Success(<< <<from, Itoa(fromUpdatedBalance)>>,
                        <<receiver, Itoa(toUpdatedBalance)>> >>, <<>>)

TransferTx(st, clientID, receiver, amount) ==
    LET t == _transferCalc(st, clientID, receiver, amount)
    IN  IF t.err # OK THEN Fail(t.err)
        ELSE Success(t.writes, <<[name |-> "Transfer", payload |-> event(clientID, receiver, amount)]>>)

\* TransferFrom comparing currentAllowance < amount: an allowance equal to
\* the amount is enough
TransferFromTx_ExactAllowed(st, spender, from, receiver, amount) ==
    LET ck               == CreateCompositeKey(allowancePrefix, <<from, spender>>)
        currentAllowance == Atoi(GetState(st, ck.key).bytes).val
        t                == _transferCalc(st, from, receiver, amount)
    IN  IF amount <= 0 THEN Fail("InvalidArgument")
        ELSE IF ~ck.ok THEN Fail("InvalidKey")
        ELSE IF currentAllowance < amount THEN Fail("InsufficientAllowance")
        ELSE IF t.err # OK THEN Fail(t.err)
        ELSE Success(t.writes \o << <<ck.key, Itoa(currentAllowance - amount)>> >>,
                     <<[name |-> "Transfer", payload |-> event(from, receiver, amount)]>>)

\* TransferFrom naming the spender, not the owner, as the event's sender
TransferFromTx_SpenderInEvent(st, spender, from, receiver, amount) ==
    LET ck               == CreateCompositeKey(allowancePrefix, <<from, spender>>)
        currentAllowance == Atoi(GetState(st, ck.key).bytes).val
        t                == _transferCalc(st, from, receiver, amount)
    IN  IF amount <= 0 THEN Fail("InvalidArgument")
        ELSE IF ~ck.ok THEN Fail("InvalidKey")
        ELSE IF currentAllowance <= amount THEN Fail("InsufficientAllowance")
        ELSE IF t.err # OK THEN Fail(t.err)
        ELSE Success(t.writes \o << <<ck.key, Itoa(currentAllowance - amount)>> >>,
                     <<[name |-> "Transfer", payload |-> event(spender, receiver, amount)]>>)

\* TransferFrom running the transfer before it checks the allowance
TransferFromTx_TransferFirst(st, spender, from, receiver, amount) ==
    LET ck               == CreateCompositeKey(allowancePrefix, <<from, spender>>)
        currentAllowance == Atoi(GetState(st, ck.key).bytes).val
        t                == _transferCalc(st, from, receiver, amount)
    IN  IF amount <= 0 THEN Fail("InvalidArgument")
        ELSE IF ~ck.ok THEN Fail("InvalidKey")
        ELSE IF t.err # OK THEN Fail(t.err)
        ELSE IF currentAllowance <= amount THEN Fail("InsufficientAllowance")
        ELSE Success(t.writes \o << <<ck.key, Itoa(currentAllowance - amount)>> >>,
                     <<[name |-> "Transfer", payload |-> event(from, receiver, amount)]>>)

TransferFromTx(st, spender, from, receiver, amount) ==
    LET ck               == CreateCompositeKey(allowancePrefix, <<from, spender>>)
        allowanceKey     == ck.key
        currentAllowance == Atoi(GetState(st, allowanceKey).bytes).val
        t                == _transferCalc(st, from, receiver, amount)
        updatedAllowance == currentAllowance - amount
    IN  IF amount <= 0 THEN Fail("InvalidArgument")
        ELSE IF ~ck.ok THEN Fail("InvalidKey")
        ELSE IF currentAllowance <= amount THEN Fail("InsufficientAllowance")
        ELSE IF t.err # OK THEN Fail(t.err)
        ELSE Success(t.writes \o << <<allowanceKey, Itoa(updatedAllowance)>> >>,
                     <<[name |-> "Transfer", payload |-> event(from, receiver, amount)]>>)

\* Approve building its key from (spender, owner)
ApproveTx_KeySwapped(st, owner, spender, amount) ==
    LET ck == CreateCompositeKey(allowancePrefix, <<spender, owner>>)
    IN  IF ~ck.ok THEN Fail("InvalidKey")
        ELSE Success(<< <<ck.key, Itoa(amount)>> >>,
                     <<[name |-> "Approval", payload |-> event(owner, spender, amount)]>>)

ApproveTx(st, owner, spender, amount) ==
    LET ck == CreateCompositeKey(allowancePrefix, <<owner, spender>>)
    IN  IF ~ck.ok THEN Fail("InvalidKey")
        ELSE Success(<< <<ck.key, Itoa(amount)>> >>,
                     <<[name |-> "Approval", payload |-> event(owner, spender, amount)]>>)

\* Mint storing the amount as the total supply instead of adding it
MintTx_SupplyOverwritten(st, minter, amount) ==
    LET minterBalance  == GetState(st, minter)
        currentBalance == IF ~minterBalance.found THEN 0
                          ELSE Atoi(minterBalance.bytes).val
    IN  IF GetMSPID(minter) # "Org1MSP" THEN Fail("Unauthorized")
        ELSE IF amount <= 0 THEN Fail("InvalidArgument")
        ELSE Success(<< <<minter, Itoa(currentBalance + amount)>>,
                        <<totalSupplyKey, Itoa(amount)>> >>,
                     <<[name |-> "Transfer", payload |-> event(<<"0x0">>, minter, amount)]>>)

MintTx(st, minter, amount) ==
    LET minterBalance    == GetState(st, minter)
        currentBalance   == IF ~minterBalance.found THEN 0
                            ELSE Atoi(minterBalance.bytes).val
        updatedBalance   == currentBalance + amount
        totalSupplyBytes == GetState(st, totalSupplyKey)
        totalSupply      == IF ~totalSupplyBytes.found THEN 0
                            ELSE Atoi(totalSupplyBytes.bytes).val
    IN  IF GetMSPID(minter) # "Org1MSP" THEN Fail("Unauthorized")
        ELSE IF amount <= 0 THEN Fail("InvalidArgument")
        ELSE Success(<< <<minter, Itoa(updatedBalance)>>,
                        <<totalSupplyKey, Itoa(totalSupply + amount)>> >>,
                     <<[name |-> "Transfer", payload |-> event(<<"0x0">>, minter, amount)]>>)

\* Burn checking the amount before the caller's organization
BurnTx_AmountFirst(st, burner, amount) ==
    LET burnerBalance    == GetState(st, burner)
        currentBalance   == IF ~burnerBalance.found THEN 0
                            ELSE Atoi(burnerBalance.bytes).val
        totalSupplyBytes == GetState(st, totalSupplyKey)
        totalSupply      == IF ~totalSupplyBytes.found THEN 0
                            ELSE Atoi(totalSupplyBytes.bytes).val
    IN  IF amount <= 0 THEN Fail("InvalidArgument")
        ELSE IF GetMSPID(burner) # "Org1MSP" THEN Fail("Unauthorized")
        ELSE Success(<< <<burner, Itoa(currentBalance - amount)>>,
                        <<totalSupplyKey, Itoa(totalSupply - amount)>> >>,
                     <<[name |-> "Transfer", payload |-> event(<<"0x0">>, burner, amount)]>>)

BurnTx(st, burner, amount) ==
    LET burnerBalance    == GetState(st, burner)
        currentBalance   == IF ~burnerBalance.found THEN 0
                            ELSE Atoi(burnerBalance.bytes).val
        updatedBalance   == currentBalance - amount
        totalSupplyBytes == GetState(st, totalSupplyKey)
        totalSupply      == IF ~totalSupplyBytes.found THEN 0
                            ELSE Atoi(totalSupplyBytes.bytes).val
    IN  IF GetMSPID(burner) # "Org1MSP" THEN Fail("Unauthorized")
        ELSE IF amount <= 0 THEN Fail("InvalidArgument")
        ELSE Success(<< <<burner, Itoa(updatedBalance)>>,
                        <<totalSupplyKey, Itoa(totalSupply - amount)>> >>,
                     <<[name |-> "Transfer", payload |-> event(<<"0x0">>, burner, amount)]>>)

\* the two read-only queries: an error, or nil and the value returned
BalanceOfTx(st, account) ==
    LET ownerBalance == GetState(st, account)
    IN  IF ~ownerBalance.found THEN [err |-> "AccountNotFound", value |-> 0]
        ELSE [err |-> OK, value |-> Atoi(ownerBalance.bytes).val]

AllowanceTx(st, owner, spender) ==
    LET ck            == CreateCompositeKey(allowancePrefix, <<owner, spender>>)
        allowanceTemp == GetState(st, ck.key)
    IN  IF ~ck.ok THEN [err |-> "InvalidKey", value |-> 0]
        ELSE IF ~allowanceTemp.found THEN [err |-> OK, value |-> 0]
        ELSE [err |-> OK, value |-> Atoi(allowanceTemp.bytes).val]

ClientAccountIDTx(clientAccountID) == [err |-> OK, value |-> clientAccountID]

(* ------------------- simulating and committing ------------------------- *)

\* the writes of a transaction applied in the order they were issued
\* (an entry <<key, value>> is a PutState, an entry <<key>> a DelState)
RECURSIVE ApplyWrites(_, _)
ApplyWrites(st, writes) ==
    IF Len(writes) = 0 THEN st
    ELSE ApplyWrites(IF Len(Head(writes)) = 1
                     THEN DelState(st, Head(writes)[1])
                     ELSE PutState(st, Head(writes)[1], Head(writes)[2]),
                     Tail(writes))

\* the bound on the values explored
WithinBounds(writes) ==
    \A i \in 1..Len(writes) :
        LET v == Atoi(writes[i][2]).val IN v <= MaxValue /\ v >= -MaxDebt

\* no invocation in flight
NoTx == [op |-> "none", caller |-> <<>>, from |-> <<>>, to |-> <<>>, amount |-> 0,
         err |-> OK, writes |-> <<>>, events |-> <<>>]

\* One invocation runs to completion against the world state: PutState and
\* SetEvent only record what the transaction will write and publish, and the
\* response (error or nil) decides whether the peer commits them.
Response(op, caller, from, to, amount, r) ==
    [op |-> op, caller |-> caller, from |-> from, to |-> to, amount |-> amount,
     err |-> r.err, writes |-> r.writes, events |-> r.events]

Transfer ==
    /\ tx.op = "none"
    /\ \E clientID \in Clients, receiver \in Receivers, amount \in Amounts :
        LET r == TransferTx(state, clientID, receiver, amount)
        IN  /\ WithinBounds(r.writes)
            /\ tx' = Response("Transfer", clientID, clientID, receiver, amount, r)
    /\ UNCHANGED <<state, tx2>>

TransferFrom ==
    /\ tx.op = "none"
    /\ \E spender \in Clients, from \in Froms, receiver \in Receivers, amount \in Amounts :
        LET r == TransferFromTx(state, spender, from, receiver, amount)
        IN  /\ WithinBounds(r.writes)
            /\ tx' = Response("TransferFrom", spender, from, receiver, amount, r)
    /\ UNCHANGED <<state, tx2>>

Approve ==
    /\ tx.op = "none"
    /\ \E owner \in Clients, spender \in Spenders, amount \in Amounts :
        LET r == ApproveTx(state, owner, spender, amount)
        IN  /\ WithinBounds(r.writes)
            /\ tx' = Response("Approve", owner, owner, spender, amount, r)
    /\ UNCHANGED <<state, tx2>>

Mint ==
    /\ tx.op = "none"
    /\ \E minter \in Clients, amount \in Amounts :
        LET r == MintTx(state, minter, amount)
        IN  /\ WithinBounds(r.writes)
            /\ tx' = Response("Mint", minter, <<"0x0">>, minter, amount, r)
    /\ UNCHANGED <<state, tx2>>

Burn ==
    /\ tx.op = "none"
    /\ \E burner \in Clients, amount \in Amounts :
        LET r == BurnTx(state, burner, amount)
        IN  /\ WithinBounds(r.writes)
            /\ tx' = Response("Burn", burner, burner, <<"0x0">>, amount, r)
    /\ UNCHANGED <<state, tx2>>

\* a query: it writes nothing, sets no event and returns a value
QueryResponse(op, caller, from, to, q) ==
    [op |-> op, caller |-> caller, from |-> from, to |-> to, amount |-> 0,
     err |-> q.err, writes |-> <<>>, events |-> <<>>, value |-> q.value]

BalanceOf ==
    /\ tx.op = "none"
    /\ \E caller \in Clients, account \in Receivers :
        tx' = QueryResponse("BalanceOf", caller, account, account,
                            BalanceOfTx(state, account))
    /\ UNCHANGED <<state, tx2>>

Allowance ==
    /\ tx.op = "none"
    /\ \E caller \in Clients, owner \in Froms, spender \in Clients :
        tx' = QueryResponse("Allowance", caller, owner, spender,
                            AllowanceTx(state, owner, spender))
    /\ UNCHANGED <<state, tx2>>

ClientAccountID ==
    /\ tx.op = "none"
    /\ \E caller \in Clients :
        tx' = QueryResponse("ClientAccountID", caller, caller, caller,
                            ClientAccountIDTx(caller))
    /\ UNCHANGED <<state, tx2>>

\* a nil response: every write of the invocation is committed, in order
\* (the invocation is ordered alone: none was endorsed concurrently with it)
Commit ==
    /\ tx.op # "none"
    /\ tx.err = OK
    /\ tx2.op = "none"
    /\ state' = ApplyWrites(state, tx.writes)
    /\ tx' = NoTx
    /\ UNCHANGED tx2

\* an error response: nothing the invocation wrote or set is kept
Reject ==
    /\ tx.op # "none"
    /\ tx.err # OK
    /\ tx' = NoTx
    /\ UNCHANGED <<state, tx2>>

Init ==
    /\ state = [k \in {} |-> <<>>]
    /\ tx = NoTx
    /\ tx2 = NoTx

Next ==
    \/ Transfer \/ TransferFrom \/ Approve \/ Mint \/ Burn
    \/ BalanceOf \/ Allowance \/ ClientAccountID
    \/ Commit \/ Reject

Spec == Init /\ [][Next]_vars

(* ------------------------- reading the ledger -------------------------- *)

\* the integer stored under a key, an absent record counting as 0
Stored(st, key) == IF key \in DOMAIN st THEN Atoi(st[key]).val ELSE 0

TotalSupply(st) == Stored(st, totalSupplyKey)

\* a key built by CreateCompositeKey with the allowance prefix
IsAllowanceKey(key) ==
    /\ Len(key) > Len(allowancePrefix) + 1
    /\ SubSeq(key, 1, Len(allowancePrefix) + 2) = <<NUL>> \o allowancePrefix \o <<NUL>>

\* the account records: every record that is neither the total supply nor
\* an allowance
AccountKeys(st) == {k \in DOMAIN st : k # totalSupplyKey /\ ~IsAllowanceKey(k)}

RECURSIVE SumOver(_, _)
SumOver(st, keys) ==
    IF keys = {} THEN 0
    ELSE LET k == CHOOSE x \in keys : TRUE
         IN  Stored(st, k) + SumOver(st, keys \ {k})

SumBalances(st) == SumOver(st, AccountKeys(st))

\* the records of st2 outside keys are those of st1, and none appeared or went
SameExcept(st1, st2, keys) ==
    /\ (DOMAIN st1) \ keys = (DOMAIN st2) \ keys
    /\ \A k \in (DOMAIN st1) \ keys : st1[k] = st2[k]

(* ------------------------------- claims -------------------------------- *)

\* C1: after every committed operation the balances of all account records
\* sum to TotalSupply.
C1_Conservation == SumBalances(state) = TotalSupply(state)

\* C2: in every reachable state every account record holds a balance >= 0.
C2_BalancesNonNegative == \A k \in AccountKeys(state) : Stored(state, k) >= 0

\* C3: Burn(amount), amount > 0, by an authorized caller whose balance (absent
\* = 0) is below amount fails with InsufficientFunds and writes nothing.
C3_BurnInsufficientFunds ==
    (/\ tx.op = "Burn"
     /\ GetMSPID(tx.caller) = "Org1MSP"
     /\ tx.amount > 0
     /\ Stored(state, tx.caller) < tx.amount)
    => (tx.err = "InsufficientFunds" /\ tx.writes = <<>>)

\* C4: committing a successful Transfer(to, amount) of caller `from` debits
\* from by amount, credits to by amount (absent = 0) and leaves every other
\* record - account balances, allowances, TotalSupply - as it was.
C4_TransferEffect ==
    [][(tx.op = "Transfer" /\ tx.err = OK) =>
         /\ Stored(state', tx.from) = Stored(state, tx.from) - tx.amount
         /\ Stored(state', tx.to) = Stored(state, tx.to) + tx.amount
         /\ SameExcept(state, state', {tx.from, tx.to})
         /\ TotalSupply(state') = TotalSupply(state)
         /\ \A k \in DOMAIN state' : IsAllowanceKey(k) =>
                (k \in DOMAIN state /\ state'[k] = state[k])]_vars

\* C5: Transfer fails with InvalidArgument when from = to or amount < 0;
\* otherwise with AccountNotFound when the sender has no balance record;
\* otherwise with InsufficientFunds when balance(from) < amount; a failed
\* Transfer sets no event, and the world state after it is the one before.
C5_TransferErrors ==
    [][tx.op = "Transfer" =>
         LET invalid == tx.from = tx.to \/ tx.amount < 0
             absent  == BalanceOfTx(state, tx.from).err # OK
         IN  /\ invalid => tx.err = "InvalidArgument"
             /\ (~invalid /\ absent) => tx.err = "AccountNotFound"
             /\ (~invalid /\ ~absent /\ BalanceOfTx(state, tx.from).value < tx.amount)
                    => tx.err = "InsufficientFunds"
             /\ tx.err # OK => (tx.events = <<>> /\ state' = state)]_vars

C5_Witness ==
    /\ tx.op = "Transfer"
    /\ tx.from # tx.to
    /\ tx.amount > 0
    /\ tx.from \in DOMAIN state
    /\ BalanceOfTx(state, tx.from).value < tx.amount
    /\ tx.err = "InsufficientFunds"

\* C6: TransferFrom(from, to, amount) with amount > 0 is rejected with
\* InsufficientAllowance whenever allowance(from, caller) <= amount, equality
\* included, and is not rejected for its allowance when
\* allowance(from, caller) > amount.
C6_AllowanceCheck ==
    (/\ tx.op = "TransferFrom"
     /\ tx.amount > 0
     /\ AllowanceTx(state, tx.from, tx.caller).err = OK)
    => LET allowance == AllowanceTx(state, tx.from, tx.caller).value
       IN  /\ allowance <= tx.amount => tx.err = "InsufficientAllowance"
           /\ allowance > tx.amount =>
                tx.err \in {OK, "InvalidArgument", "AccountNotFound", "InsufficientFunds"}
           /\ (allowance > tx.amount /\ tx.from # tx.to
               /\ BalanceOfTx(state, tx.from).err = OK
               /\ BalanceOfTx(state, tx.from).value >= tx.amount) => tx.err = OK

C6_Witness ==
    /\ tx.op = "TransferFrom"
    /\ tx.amount > 0
    /\ AllowanceTx(state, tx.from, tx.caller).err = OK
    /\ AllowanceTx(state, tx.from, tx.caller).value = tx.amount
    /\ BalanceOfTx(state, tx.from).err = OK
    /\ BalanceOfTx(state, tx.from).value >= tx.amount
    /\ tx.err = "InsufficientAllowance"

\* C7: committing a successful TransferFrom(from, to, amount) of spender S
\* debits from by amount, credits to by amount, leaves allowance(from, S) at
\* its previous value minus amount, which is >= 1, and leaves every other
\* record - balances, allowances, TotalSupply - as it was.
C7_TransferFromEffect ==
    [][(tx.op = "TransferFrom" /\ tx.err = OK) =>
         LET allowanceKey == CreateCompositeKey(allowancePrefix, <<tx.from, tx.caller>>).key
         IN  /\ Stored(state', tx.from) = Stored(state, tx.from) - tx.amount
             /\ Stored(state', tx.to) = Stored(state, tx.to) + tx.amount
             /\ Stored(state', allowanceKey) = Stored(state, allowanceKey) - tx.amount
             /\ Stored(state', allowanceKey) >= 1
             /\ SameExcept(state, state', {tx.from, tx.to, allowanceKey})
             /\ TotalSupply(state') = TotalSupply(state)]_vars

\* C8: every stored allowance is >= 0 in every reachable state.
C8_AllowancesNonNegative ==
    \A k \in DOMAIN state : IsAllowanceKey(k) => Stored(state, k) >= 0

\* C9: Mint and Burn by a caller outside Org1MSP fail with Unauthorized for
\* every amount, set no event, and the world state after them is the one
\* before.
C9_Unauthorized ==
    [][(tx.op \in {"Mint", "Burn"} /\ GetMSPID(tx.caller) # "Org1MSP") =>
         /\ tx.err = "Unauthorized"
         /\ tx.events = <<>>
         /\ state' = state]_vars

C9_Witness ==
    /\ tx.op \in {"Mint", "Burn"}
    /\ GetMSPID(tx.caller) # "Org1MSP"
    /\ tx.amount > 0
    /\ tx.err = "Unauthorized"
    /\ state # <<>>

\* C10: committing a successful Mint(amount) raises the caller's balance
\* (absent = 0) and TotalSupply (absent = 0) by exactly amount, committing a
\* successful Burn(amount) lowers both by exactly amount, amount > 0 in both,
\* and every other record is left as it was.
C10_MintBurnEffect ==
    [][(tx.op \in {"Mint", "Burn"} /\ tx.err = OK) =>
         LET delta == IF tx.op = "Mint" THEN tx.amount ELSE -tx.amount
         IN  /\ tx.amount > 0
             /\ Stored(state', tx.caller) = Stored(state, tx.caller) + delta
             /\ TotalSupply(state') = TotalSupply(state) + delta
             /\ {tx.caller, totalSupplyKey} \subseteq DOMAIN state'
             /\ SameExcept(state, state', {tx.caller, totalSupplyKey})]_vars

C10_Witness ==
    /\ tx.op = "Burn"
    /\ tx.err = OK
    /\ Stored(state, tx.caller) >= tx.amount
    /\ \E k \in DOMAIN state : IsAllowanceKey(k)
    /\ \E k \in AccountKeys(state) : k # tx.caller

\* C11: the value stored under the total-supply key changes only when a
\* successful Mint or Burn is committed; Transfer, TransferFrom, Approve,
\* BalanceOf, Allowance and ClientAccountID leave it as it was, whatever
\* their string arguments.
C11_SupplyOnlyByMintBurn ==
    [][GetState(state', totalSupplyKey) # GetState(state, totalSupplyKey)
         => (tx.op \in {"Mint", "Burn"} /\ tx.err = OK)]_vars

C13_RoundTrip ==
    [][(tx.op = "Transfer" /\ tx.err = OK /\ tx.to \in Clients) =>
         LET back  == TransferTx(state', tx.to, tx.from, tx.amount)
             final == ApplyWrites(state', back.writes)
         IN  /\ back.err = OK
             /\ Stored(final, tx.from) = Stored(state, tx.from)
             /\ Stored(final, tx.to) = Stored(state, tx.to)]_vars

(* ---------------------- invocations under a failing stub --------------- *)

\* the operations that write
Mutating == {"Transfer", "TransferFrom", "Approve", "Mint", "Burn"}

\* the handler of an invocation, run against a world state
Simulate(st, t) ==
    CASE t.op = "Transfer"     -> TransferTx(st, t.caller, t.to, t.amount)
      [] t.op = "TransferFrom" -> TransferFromTx(st, t.caller, t.from, t.to, t.amount)
      [] t.op = "Approve"      -> ApproveTx(st, t.caller, t.to, t.amount)
      [] t.op = "Mint"         -> MintTx(st, t.caller, t.amount)
      [] t.op = "Burn"         -> BurnTx(st, t.caller, t.amount)

\* the events of an invocation that reach listeners: those of a nil response
Published(t) == IF t.err = OK THEN t.events ELSE <<>>

\* the failure of a stub call swallowed: the handler carries on and returns nil
Faulted_Swallowed(r, failAt) ==
    IF failAt <= Len(r.writes)
    THEN [err |-> OK,
          writes |-> SubSeq(r.writes, 1, failAt - 1)
                        \o SubSeq(r.writes, failAt + 1, Len(r.writes)),
          events |-> r.events]
    ELSE [err |-> OK, writes |-> r.writes, events |-> <<>>]

\* A stub call fails in a handler that would otherwise succeed with response
\* r: PutState number failAt (or the GetState that precedes it), or, past
\* the last write, json.Marshal or SetEvent.  Every handler returns the error
\* at once; the writes it issued before are in the transaction's write set.
Faulted(r, failAt) ==
    IF failAt <= Len(r.writes)
    THEN [err |-> "StoreFailure", writes |-> SubSeq(r.writes, 1, failAt - 1),
          events |-> <<>>]
    ELSE [err |-> "EventFailure", writes |-> r.writes, events |-> <<>>]

TransferFault ==
    /\ tx.op = "none"
    /\ \E clientID \in Clients, receiver \in Receivers, amount \in Amounts :
        LET r == TransferTx(state, clientID, receiver, amount)
        IN  /\ r.err = OK
            /\ WithinBounds(r.writes)
            /\ \E failAt \in 1 .. Len(r.writes) + 1 :
                tx' = Response("Transfer", clientID, clientID, receiver, amount,
                               Faulted(r, failAt))
    /\ UNCHANGED <<state, tx2>>

TransferFromFault ==
    /\ tx.op = "none"
    /\ \E spender \in Clients, from \in Froms, receiver \in Receivers, amount \in Amounts :
        LET r == TransferFromTx(state, spender, from, receiver, amount)
        IN  /\ r.err = OK
            /\ WithinBounds(r.writes)
            /\ \E failAt \in 1 .. Len(r.writes) + 1 :
                tx' = Response("TransferFrom", spender, from, receiver, amount,
                               Faulted(r, failAt))
    /\ UNCHANGED <<state, tx2>>

ApproveFault ==
    /\ tx.op = "none"
    /\ \E owner \in Clients, spender \in Spenders, amount \in Amounts :
        LET r == ApproveTx(state, owner, spender, amount)
        IN  /\ r.err = OK
            /\ WithinBounds(r.writes)
            /\ \E failAt \in 1 .. Len(r.writes) + 1 :
                tx' = Response("Approve", owner, owner, spender, amount,
                               Faulted(r, failAt))
    /\ UNCHANGED <<state, tx2>>

MintFault ==
    /\ tx.op = "none"
    /\ \E minter \in Clients, amount \in Amounts :
        LET r == MintTx(state, minter, amount)
        IN  /\ r.err = OK
            /\ WithinBounds(r.writes)
            /\ \E failAt \in 1 .. Len(r.writes) + 1 :
                tx' = Response("Mint", minter, <<"0x0">>, minter, amount,
                               Faulted(r, failAt))
    /\ UNCHANGED <<state, tx2>>

BurnFault ==
    /\ tx.op = "none"
    /\ \E burner \in Clients, amount \in Amounts :
        LET r == BurnTx(state, burner, amount)
        IN  /\ r.err = OK
            /\ WithinBounds(r.writes)
            /\ \E failAt \in 1 .. Len(r.writes) + 1 :
                tx' = Response("Burn", burner, burner, <<"0x0">>, amount,
                               Faulted(r, failAt))
    /\ UNCHANGED <<state, tx2>>

NextFault ==
    \/ Next
    \/ TransferFault \/ TransferFromFault \/ ApproveFault \/ MintFault \/ BurnFault

SpecFault == Init /\ [][NextFault]_vars

\* C14: an invocation of Transfer, TransferFrom, Approve, Mint or Burn is
\* all-or-nothing.  When it returns nil, every write of the complete handler
\* run and its one event become visible together; when it returns an error,
\* a stub failure between two writes or at the event included, the world
\* state is unchanged and no event is published.
C14_AllOrNothing ==
    [][tx.op \in Mutating =>
         LET full == Simulate(state, tx)
         IN  \/ /\ tx.err = OK
                /\ full.err = OK
                /\ state' = ApplyWrites(state, full.writes)
                /\ Published(tx) = full.events
                /\ Len(full.events) = 1
             \/ /\ tx.err # OK
                /\ state' = state
                /\ Published(tx) = <<>>]_vars

C14_Witness ==
    /\ tx.op \in Mutating
    /\ tx.err = "StoreFailure"
    /\ ApplyWrites(state, tx.writes) # state

(* --------------- concurrent endorsement, ordered commit ---------------- *)

\* the invocations a client can submit
Invocations ==
    {[op |-> "Transfer", caller |-> c, from |-> c, to |-> r, amount |-> n] :
        c \in Clients, r \in Receivers, n \in Amounts}
    \cup
    {[op |-> "TransferFrom", caller |-> c, from |-> f, to |-> r, amount |-> n] :
        c \in Clients, f \in Froms, r \in Receivers, n \in Amounts}
    \cup
    {[op |-> "Approve", caller |-> c, from |-> c, to |-> sp, amount |-> n] :
        c \in Clients, sp \in Spenders, n \in Amounts}
    \cup
    {[op |-> "Mint", caller |-> c, from |-> <<"0x0">>, to |-> c, amount |-> n] :
        c \in Clients, n \in Amounts}
    \cup
    {[op |-> "Burn", caller |-> c, from |-> c, to |-> <<"0x0">>, amount |-> n] :
        c \in Clients, n \in Amounts}

\* a handler whose debit of the sender is not backed by a recorded read
ReadSet_BlindDebit(t) ==
    CASE t.op = "Transfer"     -> {t.to}
      [] t.op = "TransferFrom" -> {t.to}
      [] t.op = "Approve"      -> {}
      [] t.op = "Mint"         -> {t.caller, totalSupplyKey}
      [] t.op = "Burn"         -> {t.caller, totalSupplyKey}

\* an Approve that reads the allowance it is about to replace
ReadSet_ApproveReads(t) ==
    CASE t.op = "Transfer"     -> {t.from, t.to}
      [] t.op = "TransferFrom" ->
            {CreateCompositeKey(allowancePrefix, <<t.from, t.caller>>).key, t.from, t.to}
      [] t.op = "Approve"      ->
            {CreateCompositeKey(allowancePrefix, <<t.caller, t.to>>).key}
      [] t.op = "Mint"         -> {t.caller, totalSupplyKey}
      [] t.op = "Burn"         -> {t.caller, totalSupplyKey}

\* the keys a successful invocation reads with GetState
ReadSet(t) ==
    CASE t.op = "Transfer"     -> {t.from, t.to}
      [] t.op = "TransferFrom" ->
            {CreateCompositeKey(allowancePrefix, <<t.from, t.caller>>).key, t.from, t.to}
      [] t.op = "Approve"      -> {}
      [] t.op = "Mint"         -> {t.caller, totalSupplyKey}
      [] t.op = "Burn"         -> {t.caller, totalSupplyKey}

\* the keys a write set holds
WriteSet(writes) == {writes[i][1] : i \in 1..Len(writes)}

\* the records an invocation draws down
Debits(t) ==
    CASE t.op = "Transfer"     -> {t.from}
      [] t.op = "TransferFrom" ->
            {CreateCompositeKey(allowancePrefix, <<t.from, t.caller>>).key, t.from}
      [] t.op = "Burn"         -> {t.caller}
      [] OTHER                 -> {}

\* the response an invocation is endorsed with
Endorsed(st, i) == Response(i.op, i.caller, i.from, i.to, i.amount, Simulate(st, i))

\* Two clients submit invocations that are endorsed against the same
\* snapshot.  Only a proposal endorsed with a nil response is sent on for
\* ordering.  The two are interchangeable (both see the same snapshot and the
\* block order is chosen at commit), so of a pair with different amounts and
\* its mirror image only one is kept.
EndorseConcurrent ==
    /\ tx.op = "none"
    /\ LET endorsed == {r \in {Endorsed(state, i) : i \in Invocations} :
                            r.err = OK /\ WithinBounds(r.writes)}
       IN  \E r1 \in endorsed, r2 \in endorsed :
               /\ r1.amount <= r2.amount
               /\ tx' = r1
               /\ tx2' = r2
    /\ UNCHANGED state

\* The two endorsed invocations are ordered into a block, either first.  The
\* first commits; the second commits only if none of the keys it read was
\* written by the first, and is invalidated otherwise.
CommitBlock ==
    /\ tx2.op # "none"
    /\ \E first \in {tx, tx2} :
        LET second     == IF first = tx THEN tx2 ELSE tx
            afterFirst == ApplyWrites(state, first.writes)
        IN  state' = IF ReadSet(second) \cap WriteSet(first.writes) = {}
                     THEN ApplyWrites(afterFirst, second.writes)
                     ELSE afterFirst
    /\ tx' = NoTx
    /\ tx2' = NoTx

NextMVCC == EndorseConcurrent \/ CommitBlock

SpecMVCC == Init /\ [][NextMVCC]_vars

C16_Events ==
    /\ (tx.op \in Mutating /\ tx.err = OK) =>
          /\ Len(Published(tx)) = 1
          /\ tx.op = "Transfer" =>
                Published(tx)[1] = [name |-> "Transfer",
                                    payload |-> event(tx.caller, tx.to, tx.amount)]
          /\ tx.op = "TransferFrom" =>
                Published(tx)[1] = [name |-> "Transfer",
                                    payload |-> event(tx.from, tx.to, tx.amount)]
          /\ tx.op = "Approve" =>
                Published(tx)[1] = [name |-> "Approval",
                                    payload |-> event(tx.caller, tx.to, tx.amount)]
          /\ tx.op = "Mint" =>
                Published(tx)[1] = [name |-> "Transfer",
                                    payload |-> event(<<"0x0">>, tx.caller, tx.amount)]
    /\ (tx.op \notin Mutating \/ tx.err # OK) =>
          /\ tx.events = <<>>
          /\ Published(tx) = <<>>

C16_Witness ==
    /\ tx.op = "TransferFrom"
    /\ tx.err = OK
    /\ tx.caller # tx.from
    /\ Len(tx.events) = 1

\* C17: the balance record of an account comes into existence only through
\* a credit, a successful Mint by the account or a successful Transfer or
\* TransferFrom to it, and is never removed once it exists; BalanceOf fails
\* with AccountNotFound exactly when the record is absent and returns the
\* stored balance otherwise.
C17_RecordByCreditOnly ==
    [][/\ \A account \in Receivers \ {totalSupplyKey} :
            /\ (account \notin DOMAIN state /\ account \in DOMAIN state') =>
                  /\ tx.err = OK
                  /\ \/ tx.op = "Mint" /\ tx.caller = account
                     \/ tx.op \in {"Transfer", "TransferFrom"} /\ tx.to = account
            /\ account \in DOMAIN state => account \in DOMAIN state'
       /\ tx.op = "BalanceOf" =>
            /\ tx.err = "AccountNotFound" <=> tx.from \notin DOMAIN state
            /\ tx.err = OK <=> tx.from \in DOMAIN state
            /\ tx.err = OK => tx.value = Stored(state, tx.from)
      ]_vars

\* C18: a Transfer of amount 0 from a sender that has a balance record to a
\* different receiver succeeds, leaves the sender's balance as it was,
\* leaves the receiver with a record (of balance 0 if it had none) and sets
\* a Transfer event of value 0; TransferFrom, and Mint and Burn called by the
\* authorized organization, reject amount 0 with InvalidArgument and write
\* nothing.
C18_ZeroAmount ==
    /\ (tx.op = "Transfer" /\ tx.amount = 0
            /\ tx.from \in DOMAIN state /\ tx.to # tx.from) =>
          LET after == ApplyWrites(state, tx.writes)
          IN  /\ tx.err = OK
              /\ Stored(after, tx.from) = Stored(state, tx.from)
              /\ tx.to \in DOMAIN after
              /\ tx.to \notin DOMAIN state => Stored(after, tx.to) = 0
              /\ tx.events = <<[name |-> "Transfer",
                                payload |-> event(tx.from, tx.to, 0)]>>
    /\ (tx.op = "TransferFrom" /\ tx.amount = 0) =>
          /\ tx.err = "InvalidArgument"
          /\ tx.writes = <<>>
    /\ (tx.op \in {"Mint", "Burn"} /\ tx.amount = 0
            /\ GetMSPID(tx.caller) = "Org1MSP") =>
          /\ tx.err = "InvalidArgument"
          /\ tx.writes = <<>>

\* C19: of several failure conditions that hold at once the first in a fixed
\* order is reported.  TransferFrom (its allowance key being well formed):
\* amount <= 0 (InvalidArgument), then allowance <= amount
\* (InsufficientAllowance), then from = to (InvalidArgument), amount < 0
\* (InvalidArgument), no sender record (AccountNotFound), sender's balance
\* below the amount (InsufficientFunds).  Mint and Burn: caller outside the
\* authorized organization (Unauthorized), then amount <= 0 (InvalidArgument).
C19_ErrorPrecedence ==
    /\ (tx.op = "TransferFrom"
            /\ CreateCompositeKey(allowancePrefix, <<tx.from, tx.caller>>).ok) =>
          tx.err =
            IF tx.amount <= 0 THEN "InvalidArgument"
            ELSE IF AllowanceTx(state, tx.from, tx.caller).value <= tx.amount
                 THEN "InsufficientAllowance"
            ELSE IF tx.from = tx.to THEN "InvalidArgument"
            ELSE IF tx.amount < 0 THEN "InvalidArgument"
            ELSE IF tx.from \notin DOMAIN state THEN "AccountNotFound"
            ELSE IF Stored(state, tx.from) < tx.amount THEN "InsufficientFunds"
            ELSE OK
    /\ tx.op \in {"Mint", "Burn"} =>
          tx.err =
            IF GetMSPID(tx.caller) # "Org1MSP" THEN "Unauthorized"
            ELSE IF tx.amount <= 0 THEN "InvalidArgument"
            ELSE OK

C19_Witness ==
    /\ tx.op = "TransferFrom"
    /\ tx.amount > 0
    /\ tx.err = "InsufficientAllowance"
    /\ tx.from = tx.to
    /\ tx.from \notin DOMAIN state

\* C20: a successful Approve(spender, n) by owner changes nothing but
\* allowance(owner, spender): every other store key keeps its value, the
\* allowance of every other (owner', spender') pair, ids holding NUL
\* included, is what it was, and every account balance and the total supply
\* are what they were.  An Approve that fails changes nothing.
C20_ApproveFrame ==
    [][tx.op = "Approve" =>
         IF tx.err = OK
         THEN /\ SameExcept(state, state',
                    {CreateCompositeKey(allowancePrefix, <<tx.caller, tx.to>>).key})
              /\ \A owner \in Clients \cup {ClientA \o <<NUL>> \o ClientB},
                    spender \in Clients \cup Spenders :
                    <<owner, spender>> # <<tx.caller, tx.to>> =>
                        AllowanceTx(state', owner, spender)
                            = AllowanceTx(state, owner, spender)
              /\ \A account \in Receivers :
                    GetState(state', account) = GetState(state, account)
         ELSE state' = state
      ]_vars

C20_Witness ==
    /\ tx.op = "Approve"
    /\ tx.err = OK
    /\ tx.caller = ClientA
    /\ AllowanceTx(state, ClientA, ClientB).value # tx.amount
    /\ AllowanceTx(state, ClientB, ClientB).value > 0
    /\ Stored(state, ClientA) > 0

(* ------------------ receivers that are not client ids ------------------ *)

\* the allowance keys of the owners explored, passed as a receiver string
AllowanceKeyReceivers ==
    {CreateCompositeKey(allowancePrefix, <<owner, ClientB>>).key : owner \in Clients}

\* Transfer called with the text of an allowance key as its receiver:
\* _transferCalc passes the receiver to GetState and PutState as it is
TransferToAllowanceKey ==
    /\ tx.op = "none"
    /\ \E clientID \in Clients, receiver \in AllowanceKeyReceivers, amount \in Amounts :
        LET r == TransferTx(state, clientID, receiver, amount)
        IN  /\ WithinBounds(r.writes)
            /\ tx' = Response("Transfer", clientID, clientID, receiver, amount, r)
    /\ UNCHANGED <<state, tx2>>

NextAnyReceiver == Next \/ TransferToAllowanceKey

SpecAnyReceiver == Init /\ [][NextAnyReceiver]_vars

\* C21: the balance of an account X decreases in a step only if the step
\* commits a Transfer called by X, a Burn called by X (X in the authorized
\* organization), or a TransferFrom(from = X) called by a spender S whose
\* allowance(X, S) exceeded the amount; and allowance(X, S) is what X's own
\* Approve last set, less what S's TransferFrom calls spent: its record
\* changes only when X's Approve for S commits or when a TransferFrom(from =
\* X) called by S commits, which lowers it by the amount.
C21_DebitOnlyByAuthority ==
    [][\A X \in Clients :
         /\ Stored(state', X) < Stored(state, X) =>
              /\ tx.err = OK
              /\ \/ tx.op = "Transfer" /\ tx.caller = X
                 \/ tx.op = "Burn" /\ tx.caller = X /\ GetMSPID(X) = "Org1MSP"
                 \/ /\ tx.op = "TransferFrom" /\ tx.from = X
                    /\ AllowanceTx(state, X, tx.caller).value > tx.amount
         /\ \A S \in Clients :
              LET key == CreateCompositeKey(allowancePrefix, <<X, S>>).key
              IN  GetState(state', key) # GetState(state, key) =>
                    /\ tx.err = OK
                    /\ \/ tx.op = "Approve" /\ tx.caller = X /\ tx.to = S
                       \/ /\ tx.op = "TransferFrom" /\ tx.from = X /\ tx.caller = S
                          /\ Stored(state', key) = Stored(state, key) - tx.amount
      ]_vars

(* ------------------------ an observer of the events -------------------- *)

\* the accounts an observer keeps a shadow balance for
ShadowAccounts == Clients \cup {<<"C">>}

\* the ledger as the observer wants to reproduce it
Ledger(st) ==
    [balances |-> [a \in ShadowAccounts |-> Stored(st, a)],
     supply   |-> TotalSupply(st)]

\* one Transfer event replayed: credit `To`; debit `From`, unless it is the
\* null account "0x0", which adds the value to the supply instead
ReplayEvent(shadow, e) ==
    LET p        == e.payload
        credited == [a \in ShadowAccounts |->
                        IF a = p.To THEN shadow.balances[a] + p.Value
                        ELSE shadow.balances[a]]
    IN  IF e.name # "Transfer" THEN shadow
        ELSE IF p.From = <<"0x0">>
        THEN [balances |-> credited, supply |-> shadow.supply + p.Value]
        ELSE [balances |-> [a \in ShadowAccounts |->
                                IF a = p.From THEN credited[a] - p.Value
                                ELSE credited[a]],
              supply   |-> shadow.supply]

RECURSIVE Replay(_, _)
Replay(shadow, events) ==
    IF Len(events) = 0 THEN shadow
    ELSE Replay(ReplayEvent(shadow, Head(events)), Tail(events))

\* C22: replaying the published Transfer events in commit order on an empty
\* shadow ledger gives the ledger's account balances and total supply.  The
\* shadow and the ledger start equal (both empty), so they stay equal exactly
\* if every commit of a successful Mint, Burn, Transfer or TransferFrom moves
\* the ledger as the replay of its event moves the shadow.
C22_EventReplay ==
    [][(tx.op \in {"Mint", "Burn", "Transfer", "TransferFrom"} /\ tx.err = OK) =>
         Ledger(state') = Replay(Ledger(state), Published(tx))]_vars

\* C23: Approve reads no ledger state, so read-set validation never rejects
\* it.  When an Approve(S, m) by owner O and a TransferFrom(from = O) by S
\* are endorsed against the same snapshot, either the TransferFrom commits
\* first and the Approve commits after it, or the Approve commits first and
\* the TransferFrom is invalidated; in both cases allowance(O, S) ends as m,
\* whatever S spent.
C23_ApproveNeverRejected ==
    [][(/\ {tx.op, tx2.op} = {"Approve", "TransferFrom"}
        /\ LET a == IF tx.op = "Approve" THEN tx ELSE tx2
               t == IF tx.op = "Approve" THEN tx2 ELSE tx
           IN  a.caller = t.from /\ a.to = t.caller) =>
         LET a == IF tx.op = "Approve" THEN tx ELSE tx2
             t == IF tx.op = "Approve" THEN tx2 ELSE tx
         IN  /\ ReadSet(a) = {}
             /\ ReadSet(t) \cap WriteSet(a.writes) # {}
             /\ state' \in {ApplyWrites(ApplyWrites(state, t.writes), a.writes),
                            ApplyWrites(state, a.writes)}
             /\ AllowanceTx(state', a.caller, a.to) = [err |-> OK, value |-> a.amount]
      ]_vars

C23_Witness ==
    /\ tx.op = "Approve" /\ tx2.op = "TransferFrom"
    /\ tx.caller = tx2.from /\ tx.to = tx2.caller
    /\ tx.amount # AllowanceTx(state, tx.caller, tx.to).value - tx2.amount

(***************************************************************************)
(* The asset-transfer chaincode                                            *)
(* (asset-transfer-myattempt/chaincode-go/chaincode/smartcontract.go).     *)
(* It is a chaincode of its own: under SpecAsset `state` is its world      *)
(* state, asset id -> stored JSON, and `tx` its invocation in flight.      *)
(***************************************************************************)

\* the Asset struct
Asset(id, owner, itemName, description, appraisedValue) ==
    [ID |-> id, Owner |-> owner, ItemName |-> itemName,
     Description |-> description, AppraisedValue |-> appraisedValue]

\* json.Marshal of an Asset: the members in struct order under their json names
Marshal(asset) ==
    << <<"ID", asset.ID>>, <<"owner", asset.Owner>>, <<"itemName", asset.ItemName>>,
       <<"description", asset.Description>>, <<"appraisedValue", asset.AppraisedValue>> >>

\* the value of a member of a JSON object, or the zero value if it has none
Member(json, name, zero) ==
    IF \E i \in 1..Len(json) : json[i][1] = name
    THEN json[CHOOSE i \in 1..Len(json) : json[i][1] = name][2]
    ELSE zero

\* json.Unmarshal into an Asset
Unmarshal(json) ==
    Asset(Member(json, "ID", <<>>), Member(json, "owner", ""),
          Member(json, "itemName", ""), Member(json, "description", ""),
          Member(json, "appraisedValue", 0))

\* the arguments explored: two ids and the empty string; owners, item
\* names, a description and appraised values
AssetIds        == << <<"asset1">>, <<"asset2">> >>
Ids             == {AssetIds[i] : i \in 1..Len(AssetIds)} \cup {<<>>}
Owners          == {"DriverCompany", "tom", "jerry"}
ItemNames       == {"Chocolate Bars", "blue"}
Descriptions    == {"Deliver to shipment company, 100 bars"}
AppraisedValues == {35, 500}

\* PutState refuses the empty key
PutAsset(id, assetJSON) ==
    IF id = <<>> THEN Fail("InvalidKey")
    ELSE Success(<< <<id, assetJSON>> >>, <<>>)

InitLedgerTx(st) ==
    LET asset == Asset(<<"asset1">>, "DriverCompany", "Chocolate Bars",
                       "Deliver to shipment company, 100 bars", 500)
    IN  PutAsset(asset.ID, Marshal(asset))

AssetExistsTx(st, id) == [err |-> OK, value |-> GetState(st, id).found]

ReadAssetTx(st, id) ==
    LET assetJSON == GetState(st, id)
    IN  IF ~assetJSON.found THEN [err |-> "NotFound", value |-> Unmarshal(<<>>)]
        ELSE [err |-> OK, value |-> Unmarshal(assetJSON.bytes)]

\* CreateAsset without its check that the id is free
CreateAssetTx_NoExistsCheck(st, id, owner, itemName, description, appraisedValue) ==
    PutAsset(id, Marshal(Asset(id, owner, itemName, description, appraisedValue)))

CreateAssetTx(st, id, owner, itemName, description, appraisedValue) ==
    LET exists == AssetExistsTx(st, id).value
        asset  == Asset(id, owner, itemName, description, appraisedValue)
    IN  IF exists THEN Fail("AlreadyExists")
        ELSE PutAsset(id, Marshal(asset))

DeleteAssetTx(st, id) ==
    LET exists == AssetExistsTx(st, id).value
    IN  IF ~exists THEN Fail("NotFound")
        ELSE Success(<< <<id>> >>, <<>>)

UpdateAssetTx(st, id, owner, itemName, description, appraisedValue) ==
    LET exists == AssetExistsTx(st, id).value
        asset  == Asset(id, owner, itemName, description, appraisedValue)
    IN  IF ~exists THEN Fail("NotFound")
        ELSE PutAsset(id, Marshal(asset))

TransferAssetTx(st, id, newOwner) ==
    LET read  == ReadAssetTx(st, id)
        asset == [read.value EXCEPT !.Owner = newOwner]
    IN  IF read.err # OK THEN Fail(read.err)
        ELSE PutAsset(id, Marshal(asset))

\* GetStateByRange("", ""): every record, in key order
RECURSIVE AssetsFrom(_, _)
AssetsFrom(st, i) ==
    IF i > Len(AssetIds) THEN <<>>
    ELSE (IF AssetIds[i] \in DOMAIN st THEN <<Unmarshal(st[AssetIds[i]])>> ELSE <<>>)
            \o AssetsFrom(st, i + 1)

GetAllAssetsTx(st) == [err |-> OK, value |-> AssetsFrom(st, 1)]

\* an invocation of the asset chaincode in flight
AssetResponse(op, id, owner, itemName, description, appraisedValue, r) ==
    [op |-> op, id |-> id, owner |-> owner, itemName |-> itemName,
     description |-> description, appraisedValue |-> appraisedValue,
     err |-> r.err, writes |-> r.writes, events |-> r.events]

AssetQueryResponse(op, id, q) ==
    [op |-> op, id |-> id, err |-> q.err, writes |-> <<>>, events |-> <<>>,
     value |-> q.value]

InitLedger ==
    /\ tx.op = "none"
    /\ tx' = AssetResponse("InitLedger", <<>>, "", "", "", 0, InitLedgerTx(state))
    /\ UNCHANGED <<state, tx2>>

ReadAsset ==
    /\ tx.op = "none"
    /\ \E id \in Ids : tx' = AssetQueryResponse("ReadAsset", id, ReadAssetTx(state, id))
    /\ UNCHANGED <<state, tx2>>

CreateAsset ==
    /\ tx.op = "none"
    /\ \E id \in Ids, owner \in Owners, itemName \in ItemNames,
          description \in Descriptions, appraisedValue \in AppraisedValues :
        tx' = AssetResponse("CreateAsset", id, owner, itemName, description, appraisedValue,
                CreateAssetTx(state, id, owner, itemName, description, appraisedValue))
    /\ UNCHANGED <<state, tx2>>

DeleteAsset ==
    /\ tx.op = "none"
    /\ \E id \in Ids :
        tx' = AssetResponse("DeleteAsset", id, "", "", "", 0, DeleteAssetTx(state, id))
    /\ UNCHANGED <<state, tx2>>

UpdateAsset ==
    /\ tx.op = "none"
    /\ \E id \in Ids, owner \in Owners, itemName \in ItemNames,
          description \in Descriptions, appraisedValue \in AppraisedValues :
        tx' = AssetResponse("UpdateAsset", id, owner, itemName, description, appraisedValue,
                UpdateAssetTx(state, id, owner, itemName, description, appraisedValue))
    /\ UNCHANGED <<state, tx2>>

AssetExists ==
    /\ tx.op = "none"
    /\ \E id \in Ids : tx' = AssetQueryResponse("AssetExists", id, AssetExistsTx(state, id))
    /\ UNCHANGED <<state, tx2>>

TransferAsset ==
    /\ tx.op = "none"
    /\ \E id \in Ids, newOwner \in Owners :
        tx' = AssetResponse("TransferAsset", id, newOwner, "", "", 0,
                            TransferAssetTx(state, id, newOwner))
    /\ UNCHANGED <<state, tx2>>

GetAllAssets ==
    /\ tx.op = "none"
    /\ tx' = AssetQueryResponse("GetAllAssets", <<>>, GetAllAssetsTx(state))
    /\ UNCHANGED <<state, tx2>>

NextAsset ==
    \/ InitLedger \/ ReadAsset \/ CreateAsset \/ DeleteAsset \/ UpdateAsset
    \/ AssetExists \/ TransferAsset \/ GetAllAssets
    \/ Commit \/ Reject

SpecAsset == Init /\ [][NextAsset]_vars

\* C24: in the asset store, CreateAsset on an id that exists fails and the
\* stored record stays as it is; UpdateAsset, DeleteAsset, TransferAsset and
\* ReadAsset on an id that does not exist fail and the store stays as it is;
\* the record stored under a key always has that key as its ID; and a
\* TransferAsset that succeeds changes the Owner member of that record and
\* nothing else.
C24_AssetStore ==
    [][/\ (tx.op = "CreateAsset" /\ tx.id \in DOMAIN state) =>
            (tx.err # OK /\ state' = state)
       /\ (tx.op \in {"UpdateAsset", "DeleteAsset", "TransferAsset", "ReadAsset"}
                /\ tx.id \notin DOMAIN state) =>
            (tx.err # OK /\ state' = state)
       /\ \A key \in DOMAIN state' : Unmarshal(state'[key]).ID = key
       /\ (tx.op = "TransferAsset" /\ tx.err = OK) =>
            /\ SameExcept(state, state', {tx.id})
            /\ tx.id \in DOMAIN state'
            /\ Unmarshal(state'[tx.id]) = [Unmarshal(state[tx.id]) EXCEPT !.Owner = tx.owner]
      ]_vars

C24_Witness ==
    /\ tx.op = "CreateAsset"
    /\ tx.id \in DOMAIN state
    /\ tx.err # OK
    /\ Unmarshal(state[tx.id]).Owner # tx.owner

====
